---------------------------- MODULE Spec2Model ----------------------------
(***************************************************************************)
(* nebula-keybind-menu (src/src/main.rs): a terminal application that      *)
(* shows a searchable, scrollable list of keybinds.                        *)
(*                                                                         *)
(* A Rust String is modelled as a sequence of characters, each character   *)
(* a one-element label ("a", " ", ...).  One label, "e_acute", stands for  *)
(* a character whose UTF-8 encoding takes two bytes, so that String::len   *)
(* (a byte count) and the number of characters can differ.                 *)
(***************************************************************************)
EXTENDS Integers, Sequences, FiniteSets, TLC

VARIABLES
    pc,                 \* position of main / App::run
    should_quit,        \* App.should_quit
    search_input,       \* App.search_input: [value, cursor]
    items,              \* App.items
    first_frame_logged, \* App.first_frame_logged
    items_loaded,       \* App.items_loaded
    scroll_offset,      \* App.scroll_offset (u16)
    content_height,     \* App.content_height (u16)
    profiling,          \* NEBULA_KEYBIND_MENU_PROFILE is set
    env,                \* process environment: XDG_CONFIG_HOME, HOME
    fs,                 \* filesystem: path -> file
    raw_mode,           \* terminal is in raw mode
    alt_screen,         \* terminal shows the alternate screen
    frame,              \* what the latest draw put on the screen
    exit_cause,         \* why the process exited ("none" while it runs)
    init_ok,            \* init_terminal returned Ok
    restore_called,     \* restore_terminal has been entered
    n_draws,            \* history: number of frames drawn
    n_reads,            \* history: number of event::read calls
    n_loads,            \* history: number of load_keybinds calls
    last,               \* history: the event handled last and the offset before it
    arg,                \* input of the function under study (function specifications)
    out                 \* its result

vars == <<pc, should_quit, search_input, items, first_frame_logged, items_loaded,
          scroll_offset, content_height, profiling, env, fs, raw_mode, alt_screen,
          frame, exit_cause, init_ok, restore_called, n_draws, n_reads, n_loads,
          last, arg, out>>

(***************************************************************************)
(* Bounds of the model.                                                    *)
(***************************************************************************)
MaxEvents == 4      \* events read by one run of the loop
MaxWidth == 9       \* content widths 0..MaxWidth in the layout specification
MaxStrLen == 3      \* characters of a description / key / name in the layout specification
MaxQueryLen == 2    \* characters of a query in the filter specification
MaxStore == 3       \* keybinds of a store in the filter specification

(***************************************************************************)
(* Integers and strings.                                                   *)
(***************************************************************************)
U16Max == 65535

Min(a, b) == IF a < b THEN a ELSE b
Max(a, b) == IF a > b THEN a ELSE b

\* u16::saturating_sub, u16::saturating_add, usize::saturating_sub
saturating_sub(a, b) == IF a > b THEN a - b ELSE 0
saturating_add(a, b) == IF a + b > U16Max THEN U16Max ELSE a + b

\* `x as u16`
as_u16(x) == x % (U16Max + 1)

UpperCase == <<"A","B","C","D","E","F","G","H","I","J","K","L","M",
               "N","O","P","Q","R","S","T","U","V","W","X","Y","Z","E_ACUTE">>
LowerCase == <<"a","b","c","d","e","f","g","h","i","j","k","l","m",
               "n","o","p","q","r","s","t","u","v","w","x","y","z","e_acute">>

\* char::to_lowercase
char_to_lowercase(c) ==
    IF \E i \in 1..Len(UpperCase) : UpperCase[i] = c
    THEN LowerCase[CHOOSE i \in 1..Len(UpperCase) : UpperCase[i] = c]
    ELSE c

\* str::to_lowercase
to_lowercase(s) == [i \in 1..Len(s) |-> char_to_lowercase(s[i])]

\* number of bytes of a character's UTF-8 encoding
len_utf8(c) == IF c \in {"e_acute", "E_ACUTE"} THEN 2 ELSE 1

\* str::len: the length in bytes
RECURSIVE str_len(_)
str_len(s) == IF s = <<>> THEN 0 ELSE len_utf8(Head(s)) + str_len(Tail(s))

\* str::contains(&str): some window of the haystack equals the needle
contains(hay, needle) ==
    \E i \in 0..Len(hay) :
        /\ i + Len(needle) <= Len(hay)
        /\ SubSeq(hay, i + 1, i + Len(needle)) = needle

\* str::repeat of a one-character string
repeat(c, n) == [i \in 1..n |-> c]

is_whitespace(c) == c = " "

\* str::trim: drop leading and trailing whitespace
RECURSIVE trim_start(_)
trim_start(s) ==
    IF s # <<>> /\ is_whitespace(Head(s)) THEN trim_start(Tail(s)) ELSE s

RECURSIVE trim_end(_)
trim_end(s) ==
    IF s # <<>> /\ is_whitespace(s[Len(s)])
    THEN trim_end(SubSeq(s, 1, Len(s) - 1))
    ELSE s

trim(s) == trim_end(trim_start(s))

(***************************************************************************)
(* Keybind records and the layout of the list.                             *)
(***************************************************************************)
Keybind(k, n, d) == [keys |-> k, name |-> n, desc |-> d]

\* matches, were its `||` an `&&`
matches_wrong_and(item, query) ==
    /\ contains(to_lowercase(item.name), query)
    /\ contains(to_lowercase(item.desc), query)

\* the closure given to filter() in render_content
matches(item, query) ==
    \/ contains(to_lowercase(item.name), query)
    \/ contains(to_lowercase(item.desc), query)

\* self.items.iter().filter(..).collect()
RECURSIVE filter_items(_, _)
filter_items(store, query) ==
    IF store = <<>> THEN <<>>
    ELSE (IF matches(Head(store), query) THEN <<Head(store)>> ELSE <<>>)
         \o filter_items(Tail(store), query)

\* the filtered list of render_content for a search input value
filtered_items(store, value) == filter_items(store, to_lowercase(value))

\* format!("{} ", item.keys)
key_text(item) == item.keys \o <<" ">>

\* spacer_len, were its else branch 0
spacer_len_no_floor(item, width) ==
    LET reserved == str_len(key_text(item)) + str_len(item.name)
    IN  IF width > reserved THEN width - reserved ELSE 0

\* spacer_len of render_content
spacer_len(item, width) ==
    LET reserved == str_len(key_text(item)) + str_len(item.name)
    IN  IF width > reserved THEN width - reserved ELSE 1

\* the three spans of an entry's first line, concatenated
entry_line(item, width) ==
    key_text(item) \o repeat(" ", spacer_len(item, width)) \o item.name

\* make_desc_line, were left rounded up
make_desc_line_round_up(desc, width) ==
    LET trimmed == trim(desc)
        desc_len == str_len(trimmed)
        dash_total == width - desc_len - 2
        left == (dash_total + 1) \div 2
        right == dash_total - left
    IN  IF width = 0 THEN trimmed
        ELSE IF width < desc_len + 4 THEN trimmed
        ELSE repeat("-", left) \o <<" ">> \o trimmed \o <<" ">> \o repeat("-", right)

\* App::make_desc_line
make_desc_line(desc, width) ==
    LET trimmed == trim(desc)
        desc_len == str_len(trimmed)
        min_needed == desc_len + 4
        dash_total == width - desc_len - 2
        left == dash_total \div 2
        right == dash_total - left
    IN  IF width = 0 THEN trimmed
        ELSE IF width < min_needed THEN trimmed
        ELSE repeat("-", left) \o <<" ">> \o trimmed \o <<" ">> \o repeat("-", right)

\* the lines pushed for one item: the entry line, the description line, a spacer
item_lines(item, width) ==
    <<entry_line(item, width)>>
    \o (IF item.desc # <<>> THEN <<make_desc_line(item.desc, width)>> ELSE <<>>)
    \o << <<" ">> >>

\* the `for item in filtered_items` loop of render_content
RECURSIVE layout_lines(_, _)
layout_lines(filtered, width) ==
    IF filtered = <<>> THEN <<>>
    ELSE item_lines(Head(filtered), width) \o layout_lines(Tail(filtered), width)


(***************************************************************************)
(* The config loader.  An Option is a set with at most one element; a path *)
(* is the sequence of its components; a file is unreadable, malformed      *)
(* (read, but toml::from_str::<Config> fails) or a Config.                 *)
(***************************************************************************)
Unreadable == [kind |-> "unreadable", keybinds |-> <<>>]
Malformed == [kind |-> "malformed", keybinds |-> <<>>]
ConfigFile(list) == [kind |-> "config", keybinds |-> list]

system_config == <<"usr", "share", "nebula-keybind-menu", "config.toml">>

\* the vec! at the end of load_keybinds
default_keybinds ==
    << Keybind(<<"S","U","P","E","R"," ","+"," ","S","P","A","C","E">>,
               <<"L","a","u","n","c","h","e","r">>,
               <<"O","p","e","n"," ","a","p","p"," ","l","a","u","n","c","h","e","r">>),
       Keybind(<<"S","U","P","E","R"," ","+"," ","B">>,
               <<"W","e","b"," ","B","r","o","w","s","e","r">>,
               <<"O","p","e","n"," ","d","e","f","a","u","l","t"," ","b","r","o","w","s","e","r">>),
       Keybind(<<"S","U","P","E","R"," ","+"," ","E","N","T","E","R">>,
               <<"T","e","r","m","i","n","a","l">>,
               <<"O","p","e","n"," ","t","e","r","m","i","n","a","l">>),
       Keybind(<<"S","U","P","E","R"," ","+"," ","Q">>,
               <<"C","l","o","s","e"," ","W","i","n","d","o","w">>,
               <<"C","l","o","s","e"," ","f","o","c","u","s","e","d"," ","w","i","n","d","o","w">>) >>

\* xdg_config_path
xdg_config_path(e) ==
    IF e.XDG_CONFIG_HOME # {}
    THEN {CHOOSE p \in e.XDG_CONFIG_HOME : TRUE}
    ELSE IF e.HOME # {}
    THEN {(CHOOSE p \in e.HOME : TRUE) \o <<".config">>}
    ELSE {}

\* user_config of load_keybinds
user_config(e) ==
    {path \o <<"nebula-keybind-menu", "config.toml">> : path \in xdg_config_path(e)}

\* std::fs::read_to_string followed by toml::from_str::<Config>: Some(config) or None
read_config(f, path) ==
    IF path \in DOMAIN f /\ f[path].kind = "config" THEN {f[path]} ELSE {}

\* one tier of load_keybinds: Some(list) when the tier is accepted
tier(f, path) ==
    {config.keybinds : config \in {c \in read_config(f, path) : c.keybinds # <<>>}}

\* load_keybinds, were the system file tried first
load_keybinds_system_first(e, f) ==
    LET user == UNION {tier(f, path) : path \in user_config(e)}
        system == tier(f, system_config)
    IN  IF system # {} THEN CHOOSE list \in system : TRUE
        ELSE IF user # {} THEN CHOOSE list \in user : TRUE
        ELSE default_keybinds

\* load_keybinds
load_keybinds(e, f) ==
    LET user == UNION {tier(f, path) : path \in user_config(e)}
        system == tier(f, system_config)
    IN  IF user # {} THEN CHOOSE list \in user : TRUE
        ELSE IF system # {} THEN CHOOSE list \in system : TRUE
        ELSE default_keybinds

(***************************************************************************)
(* The text input (tui_input::Input) as handle_events uses it: a value and *)
(* a cursor, edited by the keys that reach the default arm.                *)
(***************************************************************************)
Key(code, ch, ctrl) == [code |-> code, ch |-> ch, ctrl |-> ctrl]

\* the keys of the model that the match of handle_events sends to its default arm
OtherKeys ==
    { Key("Char", "c", FALSE), Key("Char", "O", FALSE), Key("Char", "u", TRUE),
      Key("Backspace", "", FALSE), Key("Enter", "", FALSE) }

\* Input::handle_event
input_handle_event(input, key) ==
    LET v == input.value
        c == input.cursor
    IN  CASE key.code = "Char" /\ ~key.ctrl ->
                [value |-> SubSeq(v, 1, c) \o <<key.ch>> \o SubSeq(v, c + 1, Len(v)),
                 cursor |-> c + 1]
          [] key.code = "Char" /\ key.ctrl /\ key.ch = "u" ->
                [value |-> <<>>, cursor |-> 0]
          [] key.code = "Backspace" /\ c > 0 ->
                [value |-> SubSeq(v, 1, c - 1) \o SubSeq(v, c + 1, Len(v)),
                 cursor |-> c - 1]
          [] key.code = "Left" /\ c > 0 ->
                [value |-> v, cursor |-> c - 1]
          [] OTHER -> input

(***************************************************************************)
(* Rendering.  render_ui hands render_content the content area; the frame  *)
(* records what render_content put there.                                  *)
(***************************************************************************)
Areas == {[width |-> 40, height |-> h] : h \in {0, 5, 40000}}

Frame(kind, total, scroll) == [kind |-> kind, total_lines |-> total, scroll |-> scroll]

\* App::render_content: the new content_height and the frame
render_content(area) ==
    IF ~items_loaded
    THEN [content_height |-> content_height, frame |-> Frame("loading", 0, 0)]
    ELSE LET filtered == filtered_items(items, search_input.value)
             lines == layout_lines(filtered, area.width)
             max_scroll == saturating_sub(Len(lines), area.height)
             scroll == Min(scroll_offset, as_u16(max_scroll))
         IN  IF filtered = <<>> \/ lines = <<>>
             THEN [content_height |-> area.height, frame |-> Frame("no matches", 0, 0)]
             ELSE [content_height |-> area.height,
                   frame |-> Frame("list", Len(lines), scroll)]


(***************************************************************************)
(* The program: main, App::run and App::handle_events.                     *)
(***************************************************************************)
NoEnv == [XDG_CONFIG_HOME |-> {}, HOME |-> {}]
XdgPath == <<"xdg", "nebula-keybind-menu", "config.toml">>
HomePath == <<"home", ".config", "nebula-keybind-menu", "config.toml">>
Paths == {XdgPath, HomePath, system_config}

\* two small config files
UserStore ==
    << Keybind(<<"F","1">>, <<"O","c">>, <<>>),
       Keybind(<<"F","2">>, <<"c","o">>, <<" ","c"," ">>) >>
SysStore == << Keybind(<<"F","3">>, <<"u">>, <<"C">>) >>

\* the environments (profiling variable, config variables) and filesystems the
\* program is started in
Worlds ==
    { [profiling |-> FALSE, env |-> NoEnv, fs |-> [p \in Paths |-> Unreadable]],
      [profiling |-> TRUE,
       env |-> [XDG_CONFIG_HOME |-> {<<"xdg">>}, HOME |-> {<<"home">>}],
       fs |-> (XdgPath :> ConfigFile(UserStore) @@ HomePath :> Malformed
               @@ system_config :> ConfigFile(SysStore))] }

NoEvent == [event |-> "none", offset |-> 0]
NoArg == [fn |-> "none"]
NoOut == [done |-> FALSE, fn |-> "none", val |-> <<>>]

\* App::new, before main has called init_terminal
AppNew ==
    /\ should_quit = FALSE
    /\ search_input = [value |-> <<>>, cursor |-> 0]
    /\ items = <<>>
    /\ first_frame_logged = FALSE
    /\ items_loaded = FALSE
    /\ scroll_offset = 0
    /\ content_height = 0

Init ==
    /\ pc = "main"
    /\ AppNew
    /\ \E w \in Worlds : profiling = w.profiling /\ env = w.env /\ fs = w.fs
    /\ raw_mode = FALSE
    /\ alt_screen = FALSE
    /\ frame = Frame("none", 0, 0)
    /\ exit_cause = "none"
    /\ init_ok = FALSE
    /\ restore_called = FALSE
    /\ n_draws = 0
    /\ n_reads = 0
    /\ n_loads = 0
    /\ last = NoEvent
    /\ arg = NoArg
    /\ out = NoOut

appVars == <<should_quit, search_input, items, first_frame_logged, items_loaded,
             scroll_offset, content_height>>
worldVars == <<profiling, env, fs>>
termVars == <<raw_mode, alt_screen, init_ok, restore_called>>
fnVars == <<arg, out>>

\* init_terminal, called by main: each of its three steps may fail
InitTerminal ==
    /\ pc = "main"
    /\ \E failing \in {"EnterAlternateScreen", "enable_raw_mode", "Terminal::new", "none"} :
        /\ alt_screen' = (failing # "EnterAlternateScreen")
        /\ raw_mode' = (failing \in {"Terminal::new", "none"})
        /\ init_ok' = (failing = "none")
        /\ pc' = IF failing = "none" THEN "loop" ELSE "exited"
        /\ exit_cause' = IF failing = "none" THEN "none" ELSE "init_error"
    /\ UNCHANGED <<appVars, worldVars, restore_called, frame, n_draws, n_reads,
                   n_loads, last, fnVars>>

\* App::run: the loop test passes, self.draw(terminal), the profiling message
Draw ==
    /\ pc = "loop"
    /\ ~should_quit
    /\ \E area \in Areas :
        LET r == render_content(area)
        IN  /\ content_height' = r.content_height
            /\ frame' = r.frame
    /\ first_frame_logged' = (first_frame_logged \/ profiling)
    /\ n_draws' = n_draws + 1
    /\ last' = NoEvent
    /\ pc' = IF items_loaded THEN "read" ELSE "load"
    /\ UNCHANGED <<should_quit, search_input, items, items_loaded, scroll_offset,
                   worldVars, termVars, exit_cause, n_reads, n_loads, fnVars>>

\* App::draw: terminal.draw(..) fails and unwrap() panics
DrawPanics ==
    /\ pc = "loop"
    /\ ~should_quit
    /\ pc' = "exited"
    /\ exit_cause' = "panic"
    /\ UNCHANGED <<appVars, worldVars, termVars, frame, n_draws, n_reads, n_loads,
                   last, fnVars>>

\* LoadKeybinds, were items_loaded not set
LoadKeybindsKeepsFlag ==
    /\ pc = "load"
    /\ ~items_loaded
    /\ items' = load_keybinds(env, fs)
    /\ items_loaded' = FALSE
    /\ n_loads' = n_loads + 1
    /\ pc' = "read"
    /\ UNCHANGED <<should_quit, search_input, first_frame_logged, scroll_offset,
                   content_height, worldVars, termVars, frame, exit_cause, n_draws,
                   n_reads, last, fnVars>>

\* App::run: if !self.items_loaded { self.items = load_keybinds(); .. }
LoadKeybinds ==
    /\ pc = "load"
    /\ ~items_loaded
    /\ items' = load_keybinds(env, fs)
    /\ items_loaded' = TRUE
    /\ n_loads' = n_loads + 1
    /\ pc' = "read"
    /\ UNCHANGED <<should_quit, search_input, first_frame_logged, scroll_offset,
                   content_height, worldVars, termVars, frame, exit_cause, n_draws,
                   n_reads, last, fnVars>>

\* what every arm of handle_events shares: one event read, back to the loop test
Handled(event) ==
    /\ pc = "read"
    /\ pc' = "loop"
    /\ n_reads' = n_reads + 1
    /\ last' = [event |-> event, offset |-> scroll_offset]
    /\ UNCHANGED <<items, first_frame_logged, items_loaded, content_height,
                   worldVars, termVars, frame, exit_cause, n_draws, n_loads, fnVars>>

\* handle_events: event::read()? fails and the error leaves run and main
ReadFails ==
    /\ pc = "read"
    /\ pc' = "exited"
    /\ exit_cause' = "read_error"
    /\ n_reads' = n_reads + 1
    /\ UNCHANGED <<appVars, worldVars, termVars, frame, n_draws, n_loads, last, fnVars>>

\* handle_events: an event that is no key press (a resize, a mouse event, a key release)
NotAKeyPress ==
    /\ Handled("ignored")
    /\ UNCHANGED <<should_quit, search_input, scroll_offset>>

\* KeyCode::Esc
KeyEsc ==
    /\ Handled("Esc")
    /\ should_quit' = TRUE
    /\ UNCHANGED <<search_input, scroll_offset>>

\* KeyCode::Up
KeyUp ==
    /\ Handled("Up")
    /\ scroll_offset' = saturating_sub(scroll_offset, 1)
    /\ UNCHANGED <<should_quit, search_input>>

\* KeyCode::Down
KeyDown ==
    /\ Handled("Down")
    /\ scroll_offset' = saturating_add(scroll_offset, 1)
    /\ UNCHANGED <<should_quit, search_input>>

\* KeyPageUp, were the step content_height without .max(1)
KeyPageUpNoMinimum ==
    /\ Handled("PageUp")
    /\ scroll_offset' = saturating_sub(scroll_offset, content_height)
    /\ UNCHANGED <<should_quit, search_input>>

\* KeyCode::PageUp
KeyPageUp ==
    /\ Handled("PageUp")
    /\ scroll_offset' = saturating_sub(scroll_offset, Max(content_height, 1))
    /\ UNCHANGED <<should_quit, search_input>>

\* KeyCode::PageDown
KeyPageDown ==
    /\ Handled("PageDown")
    /\ scroll_offset' = saturating_add(scroll_offset, Max(content_height, 1))
    /\ UNCHANGED <<should_quit, search_input>>

\* KeyCtrlC, were its arm missing and the key left to the default arm
KeyCtrlCAsText ==
    /\ Handled("Ctrl+c")
    /\ search_input' = input_handle_event(search_input, Key("Char", "c", TRUE))
    /\ scroll_offset' = 0
    /\ UNCHANGED should_quit

\* KeyCode::Char('c') with KeyModifiers::CONTROL
KeyCtrlC ==
    /\ Handled("Ctrl+c")
    /\ should_quit' = TRUE
    /\ UNCHANGED <<search_input, scroll_offset>>

\* KeyOther, were the offset not reset
KeyOtherKeepsOffset(key) ==
    /\ Handled(key.code)
    /\ search_input' = input_handle_event(search_input, key)
    /\ UNCHANGED <<should_quit, scroll_offset>>

\* the default arm: the key goes to the text input and the offset is reset
KeyOther(key) ==
    /\ Handled(key.code)
    /\ search_input' = input_handle_event(search_input, key)
    /\ scroll_offset' = 0
    /\ UNCHANGED should_quit

\* App::run: the loop test fails, run returns Ok(())
LoopExit ==
    /\ pc = "loop"
    /\ should_quit
    /\ pc' = "restore"
    /\ UNCHANGED <<appVars, worldVars, termVars, frame, exit_cause, n_draws, n_reads,
                   n_loads, last, fnVars>>

\* restore_terminal, called by main after run returned Ok: each step may fail
RestoreTerminal ==
    /\ pc = "restore"
    /\ restore_called' = TRUE
    /\ \E failing \in {"disable_raw_mode", "LeaveAlternateScreen", "none"} :
        /\ raw_mode' = IF failing = "disable_raw_mode" THEN raw_mode ELSE FALSE
        /\ alt_screen' = IF failing = "none" THEN FALSE ELSE alt_screen
        /\ exit_cause' = IF failing = "none" THEN "quit" ELSE "restore_error"
    /\ pc' = "exited"
    /\ UNCHANGED <<appVars, worldVars, init_ok, frame, n_draws, n_reads, n_loads,
                   last, fnVars>>

\* One run of the program.  The arms of handle_events are the disjuncts that read
\* an event; a run reads at most MaxEvents events.
Next ==
    \/ InitTerminal
    \/ Draw
    \/ DrawPanics
    \/ LoadKeybinds
    \/ (n_reads < MaxEvents /\ ReadFails)
    \/ (n_reads < MaxEvents /\ NotAKeyPress)
    \/ (n_reads < MaxEvents /\ KeyEsc)
    \/ (n_reads < MaxEvents /\ KeyUp)
    \/ (n_reads < MaxEvents /\ KeyDown)
    \/ (n_reads < MaxEvents /\ KeyPageUp)
    \/ (n_reads < MaxEvents /\ KeyPageDown)
    \/ (n_reads < MaxEvents /\ KeyCtrlC)
    \/ (n_reads < MaxEvents /\ \E key \in OtherKeys : KeyOther(key))
    \/ LoopExit
    \/ RestoreTerminal

Spec == Init /\ [][Next]_vars


(***************************************************************************)
(* Function specifications: the inputs of one function are drawn in the    *)
(* initial state and one action applies it.  The program itself stays as   *)
(* App::new left it.                                                       *)
(***************************************************************************)
SeqsUpTo(S, n) == UNION {[1..k -> S] : k \in 0..n}

Idle ==
    /\ pc = "fn"
    /\ AppNew
    /\ profiling = FALSE
    /\ raw_mode = FALSE
    /\ alt_screen = FALSE
    /\ frame = Frame("none", 0, 0)
    /\ exit_cause = "none"
    /\ init_ok = FALSE
    /\ restore_called = FALSE
    /\ n_draws = 0
    /\ n_reads = 0
    /\ n_loads = 0
    /\ last = NoEvent
    /\ out = NoOut

Returns(fn, val) ==
    /\ ~out.done
    /\ out' = [done |-> TRUE, fn |-> fn, val |-> val]
    /\ UNCHANGED <<pc, appVars, worldVars, termVars, frame, exit_cause, n_draws,
                   n_reads, n_loads, last, arg>>

\* load_keybinds in every environment and filesystem of the model
Envs ==
    [XDG_CONFIG_HOME : {{}, {<<"xdg">>}}, HOME : {{}, {<<"home">>}}]
Files ==
    {Unreadable, Malformed, ConfigFile(<<>>), ConfigFile(UserStore), ConfigFile(SysStore)}

LoadInit ==
    /\ Idle
    /\ env \in Envs
    /\ fs \in [Paths -> Files]
    /\ arg = [fn |-> "load_keybinds"]

CallLoadKeybinds ==
    /\ arg.fn = "load_keybinds"
    /\ Returns("load_keybinds", load_keybinds(env, fs))

LoadNext == CallLoadKeybinds

LoadSpec == LoadInit /\ [][LoadNext]_vars

\* the filter of render_content on every store and query of the model
FilterKeybinds ==
    { Keybind(<<"a">>, <<"B">>, <<>>),
      Keybind(<<"x">>, <<"A","b">>, <<>>),
      Keybind(<<"x">>, <<>>, <<"b","A">>) }
QueryChars == {"a", "A", "b"}

FilterInit ==
    /\ Idle
    /\ env = NoEnv
    /\ fs = [p \in Paths |-> Unreadable]
    /\ \E store \in SeqsUpTo(FilterKeybinds, MaxStore) :
       \E query \in SeqsUpTo(QueryChars, MaxQueryLen) :
            arg = [fn |-> "filter", store |-> store, query |-> query]

CallFilter ==
    /\ arg.fn = "filter"
    /\ Returns("filter", filtered_items(arg.store, arg.query))

FilterNext == CallFilter

FilterSpec == FilterInit /\ [][FilterNext]_vars

\* the two line builders of render_content on every item and width of the model
DescChars == {" ", "a", "e_acute"}
NameChars == {"k", "e_acute"}

LayoutInit ==
    /\ Idle
    /\ env = NoEnv
    /\ fs = [p \in Paths |-> Unreadable]
    /\ \E width \in 0..MaxWidth :
        \/ \E desc \in SeqsUpTo(DescChars, MaxStrLen) :
                arg = [fn |-> "make_desc_line", desc |-> desc, width |-> width]
        \/ \E keys \in SeqsUpTo(NameChars, MaxStrLen) :
           \E name \in SeqsUpTo(NameChars, MaxStrLen) :
                arg = [fn |-> "entry_line", item |-> Keybind(keys, name, <<>>),
                       width |-> width]

CallMakeDescLine ==
    /\ arg.fn = "make_desc_line"
    /\ Returns("make_desc_line", make_desc_line(arg.desc, arg.width))

CallEntryLine ==
    /\ arg.fn = "entry_line"
    /\ Returns("entry_line", entry_line(arg.item, arg.width))

LayoutNext == CallMakeDescLine \/ CallEntryLine

LayoutSpec == LayoutInit /\ [][LayoutNext]_vars


(***************************************************************************)
(* The claims.                                                             *)
(***************************************************************************)
ScrollKey == KeyUp \/ KeyDown \/ KeyPageUp \/ KeyPageDown

\* C1: once a render has laid out the list, the stored scroll offset is at most
\* max(0, total_lines - viewport_height) for the lines and the height of that render.
C1_StoredOffsetWithinBounds ==
    (pc = "read" /\ frame.kind = "list")
        => scroll_offset <= Max(0, frame.total_lines - content_height)

\* C2: when the process has exited after init_terminal succeeded, by the quit flag
\* or by an input-read failure, restore_terminal has been executed.
C2_RestoredOnEveryExit ==
    (pc = "exited" /\ init_ok /\ exit_cause \in {"quit", "restore_error", "read_error"})
        => restore_called

\* C3: in every state that reads an event, Escape and Control+c are accepted and set
\* the quit flag; a set quit flag is never cleared, and with it set no frame is
\* drawn and no event is read any more.
C3_QuitIsFinal ==
    /\ [](pc = "read" => (ENABLED KeyEsc /\ ENABLED KeyCtrlC))
    /\ [][(KeyEsc \/ KeyCtrlC) => should_quit']_vars
    /\ [][should_quit => (should_quit' /\ n_draws' = n_draws /\ n_reads' = n_reads)]_vars

\* a run that typed a query, scrolled, and then quit by Control+c
C3_Witness ==
    /\ pc = "exited"
    /\ exit_cause = "quit"
    /\ last.event = "Ctrl+c"
    /\ last.offset > 0
    /\ search_input.value # <<>>
    /\ content_height > 0

\* C4: a key press of the default arm is handed to the text input and leaves the
\* scroll offset 0, whatever the offset was.
C4_TextEditResetsOffset ==
    [][\A key \in OtherKeys :
            KeyOther(key) => /\ scroll_offset' = 0
                             /\ search_input' = input_handle_event(search_input, key)
                             /\ should_quit' = should_quit]_vars

\* a character typed while the list was scrolled down
C4_Witness ==
    /\ last.event = "Char"
    /\ last.offset > 0
    /\ scroll_offset = 0
    /\ search_input.value # <<>>

\* needle is a substring of hay: hay is some prefix, then needle, then some suffix
IsSubstring(needle, hay) ==
    \E a \in 0..Len(hay) : \E b \in a..Len(hay) :
        hay = SubSeq(hay, 1, a) \o needle \o SubSeq(hay, b + 1, Len(hay))

\* the positions of the store whose name or description holds the folded query
MatchingPositions(store, query) ==
    {i \in 1..Len(store) :
        \/ IsSubstring(to_lowercase(query), to_lowercase(store[i].name))
        \/ IsSubstring(to_lowercase(query), to_lowercase(store[i].desc))}

\* C5: the filtered list is the store restricted to the keybinds whose folded name
\* or folded description holds the folded query, in store order, duplicates kept; the
\* empty query yields the store.
C5_FilterIsMatchingSubsequence ==
    out.done =>
        LET pos == MatchingPositions(arg.store, arg.query)
            nth(k) == CHOOSE i \in pos : Cardinality({j \in pos : j <= i}) = k
        IN  /\ Len(out.val) = Cardinality(pos)
            /\ \A k \in 1..Len(out.val) : out.val[k] = arg.store[nth(k)]
            /\ (arg.query = <<>> => out.val = arg.store)

\* an upper-case query that keeps a duplicated keybind twice and drops a keybind
\* that holds the query in its keys only
C5_Witness ==
    /\ out.done
    /\ arg.query = <<"A">>
    /\ Len(out.val) = 2
    /\ out.val[1] = out.val[2]
    /\ \E i \in 1..Len(arg.store) : arg.store[i].keys = <<"a">>

\* the user config file of an environment, when there is one
UserFile(e) ==
    IF e.XDG_CONFIG_HOME # {} THEN {XdgPath}
    ELSE IF e.HOME # {} THEN {HomePath}
    ELSE {}

Accepted(file) == file.kind = "config" /\ Len(file.keybinds) > 0

\* C6: load_keybinds returns the list of the first accepted tier among the user
\* file, the system file and the defaults; the defaults are the four fixed entries.
C6_FirstAcceptedTier ==
    out.done =>
        LET userOk == \E path \in UserFile(env) : Accepted(fs[path])
            systemOk == Accepted(fs[system_config])
        IN  /\ userOk => \A path \in UserFile(env) : out.val = fs[path].keybinds
            /\ (~userOk /\ systemOk) => out.val = fs[system_config].keybinds
            /\ (~userOk /\ ~systemOk) =>
                    /\ Len(out.val) = 4
                    /\ out.val[1].keys = <<"S","U","P","E","R"," ","+"," ","S","P","A","C","E">>
                    /\ out.val[1].name = <<"L","a","u","n","c","h","e","r">>
                    /\ out.val[2].keys = <<"S","U","P","E","R"," ","+"," ","B">>
                    /\ out.val[2].name = <<"W","e","b"," ","B","r","o","w","s","e","r">>
                    /\ out.val[3].keys = <<"S","U","P","E","R"," ","+"," ","E","N","T","E","R">>
                    /\ out.val[3].name = <<"T","e","r","m","i","n","a","l">>
                    /\ out.val[4].keys = <<"S","U","P","E","R"," ","+"," ","Q">>
                    /\ out.val[4].name = <<"C","l","o","s","e"," ","W","i","n","d","o","w">>

\* both files hold different non-empty lists and the user file's list is returned
C6_Witness ==
    /\ out.done
    /\ env.XDG_CONFIG_HOME = {}
    /\ env.HOME # {}
    /\ Accepted(fs[HomePath])
    /\ Accepted(fs[system_config])
    /\ fs[HomePath] # fs[system_config]
    /\ out.val = fs[HomePath].keybinds

\* t is s without its leading and trailing whitespace
IsTrimOf(t, s) ==
    /\ \E a \in 0..Len(s) : \E b \in a..Len(s) :
        /\ t = SubSeq(s, a + 1, b)
        /\ \A i \in (1..a) \cup ((b + 1)..Len(s)) : s[i] = " "
    /\ t # <<>> => (t[1] # " " /\ t[Len(t)] # " ")

\* C7: with d the length of the trimmed description, for w >= d + 4 the line is
\* left dashes, a space, the trimmed description, a space, right dashes, with
\* left = (w - d - 2) div 2 and right the rest, so it is w long and right - left is
\* 0 or 1; for w < d + 4 it is the trimmed description alone.  Lengths are
\* String::len.
C7_DescLine ==
    (out.done /\ out.fn = "make_desc_line") =>
        \E a \in 0..Len(arg.desc) : \E b \in a..Len(arg.desc) :
            LET t == SubSeq(arg.desc, a + 1, b)
                d == str_len(t)
                w == arg.width
                left == (w - d - 2) \div 2
                right == (w - d - 2) - left
            IN  /\ IsTrimOf(t, arg.desc)
                /\ w >= d + 4 =>
                    /\ Len(out.val) = left + 1 + Len(t) + 1 + right
                    /\ \A i \in 1..left : out.val[i] = "-"
                    /\ out.val[left + 1] = " "
                    /\ SubSeq(out.val, left + 2, left + 1 + Len(t)) = t
                    /\ out.val[left + Len(t) + 2] = " "
                    /\ \A i \in 1..right : out.val[left + Len(t) + 2 + i] = "-"
                    /\ str_len(out.val) = w
                    /\ right - left \in {0, 1}
                /\ w < d + 4 => out.val = t

\* a description with whitespace around it, padded with one more dash on the right
C7_Witness ==
    /\ out.done
    /\ out.fn = "make_desc_line"
    /\ arg.desc = <<" ", "e_acute", " ">>
    /\ arg.width = 9
    /\ out.val = <<"-", "-", " ", "e_acute", " ", "-", "-", "-">>

\* the spaces between the keys and the name of an entry line, when the line is the
\* keys, then spaces only, then the name
SpacesBetween(line, item) == Len(line) - Len(item.keys) - Len(item.name)

IsKeysSpacesName(line, item) ==
    /\ Len(line) >= Len(item.keys) + Len(item.name)
    /\ SubSeq(line, 1, Len(item.keys)) = item.keys
    /\ SubSeq(line, Len(line) - Len(item.name) + 1, Len(line)) = item.name
    /\ \A i \in (Len(item.keys) + 1)..(Len(line) - Len(item.name)) : line[i] = " "

\* C8 as stated: the spaces between keys and name number width - len(keys) -
\* len(name) when that is positive and one otherwise, and the line is width long
\* whenever width > len(keys) + len(name).
C8_Original ==
    (out.done /\ out.fn = "entry_line") =>
        LET v == arg.width - str_len(arg.item.keys) - str_len(arg.item.name)
        IN  /\ IsKeysSpacesName(out.val, arg.item)
            /\ SpacesBetween(out.val, arg.item) = IF v > 0 THEN v ELSE 1
            /\ v > 0 => str_len(out.val) = arg.width

\* C8, amended: the spaces between keys and name number width - len(keys) -
\* len(name) when that is at least two and two otherwise, and the line is width
\* long whenever width > len(keys) + len(name) + 1.  Lengths are String::len.
C8_EntryLineSpacing ==
    (out.done /\ out.fn = "entry_line") =>
        LET v == arg.width - str_len(arg.item.keys) - str_len(arg.item.name)
        IN  /\ IsKeysSpacesName(out.val, arg.item)
            /\ SpacesBetween(out.val, arg.item) = IF v >= 2 THEN v ELSE 2
            /\ v >= 2 => str_len(out.val) = arg.width

\* a line one byte wider than keys and name together: two spaces, width + 1 bytes
C8_Witness ==
    /\ out.done
    /\ out.fn = "entry_line"
    /\ arg.item.keys = <<"k", "e_acute">>
    /\ arg.item.name = <<"k">>
    /\ arg.width = 5
    /\ out.val = <<"k", "e_acute", " ", " ", "k">>

\* C9: the store is loaded exactly once, after the first frame and before the first
\* read; the first frame shows the loading placeholder and every later frame is
\* rendered with the loaded flag set; the flag and the store never change after
\* the load.
C9_LoadedOnceAfterFirstFrame ==
    /\ [](n_loads <= 1 /\ (items_loaded <=> n_loads = 1))
    /\ [](n_reads > 0 => n_loads = 1)
    /\ [][n_loads' # n_loads => (n_draws = 1 /\ n_reads = 0 /\ n_draws' = 1)]_vars
    /\ [](n_draws = 1 => frame.kind = "loading")
    /\ [](n_draws >= 2 => (items_loaded /\ frame.kind \in {"list", "no matches"}))
    /\ [][items_loaded => (items_loaded' /\ items' = items)]_vars

\* several frames and events after the load of a config file's list
C9_Witness ==
    /\ n_draws >= 3
    /\ n_reads >= 2
    /\ n_loads = 1
    /\ items_loaded
    /\ items = UserStore
    /\ frame.kind = "no matches"

\* C10 as stated: Up leaves max(0, s - 1), Down s + 1, PageUp max(0, s - max(1, h)),
\* PageDown s + max(1, h); none of the four changes the query or the quit flag.
C10_Original ==
    [][ /\ KeyUp => scroll_offset' = Max(0, scroll_offset - 1)
        /\ KeyDown => scroll_offset' = scroll_offset + 1
        /\ KeyPageUp => scroll_offset' = Max(0, scroll_offset - Max(1, content_height))
        /\ KeyPageDown => scroll_offset' = scroll_offset + Max(1, content_height)
        /\ ScrollKey => UNCHANGED <<search_input, should_quit>> ]_vars

\* C10, amended: Down and PageDown stop at 65535, the largest u16.
C10_ScrollSteps ==
    [][ /\ KeyUp => scroll_offset' = Max(0, scroll_offset - 1)
        /\ KeyDown => scroll_offset' = Min(65535, scroll_offset + 1)
        /\ KeyPageUp => scroll_offset' = Max(0, scroll_offset - Max(1, content_height))
        /\ KeyPageDown => scroll_offset' = Min(65535, scroll_offset + Max(1, content_height))
        /\ ScrollKey => UNCHANGED <<search_input, should_quit>> ]_vars

\* a PageDown that stopped at 65535
C10_Witness ==
    /\ last.event = "PageDown"
    /\ last.offset + Max(1, content_height) > 65535
    /\ scroll_offset = 65535

=============================================================================
